---- MODULE Spec2Model ----
(***************************************************************************)
(* Model of src/market_report.py: the daily market report script.          *)
(*                                                                         *)
(* Closes are integers.  A percentage change is kept in hundredths of a    *)
(* percent (the code rounds every change to 2 decimals), so 20.0% is 2000  *)
(* and -33.33% is -3333; the arithmetic that leads to it is the float      *)
(* arithmetic of the code.  A record is the 6-tuple the code builds,       *)
(* (sym, price, 1d, 1w, 3m, 6m), written as a TLA+ record; its field       *)
(* neg_zero names the changes that are the float -0.0.                     *)
(***************************************************************************)
EXTENDS Integers, Sequences, FiniteSets

VARIABLES
    \* the three functions applied on their own (SpecCalc, SpecRank)
    calc_step,      \* 0: inputs drawn, then 1..3 after each call
    in_symbols,     \* the symbols argument
    in_feed,        \* what yf.download returns for each symbol
    in_top_n,       \* the top_n / bottom_n argument
    mt_result,      \* get_multi_timeframe_change(in_symbols[0])
    tg_result,      \* get_daily_top_gainers(in_symbols, in_top_n)
    bp_result       \* get_daily_bottom_performers(in_symbols, in_top_n)

VARIABLES
    \* the data provider behind yf.download
    outage,         \* TRUE: every download raises
    glitch,         \* TRUE: the next download raises
    provider_changes,   \* how often the provider's behaviour has changed
    \* one run of the script
    pc,             \* the section of the script that runs next
    idx,            \* position of the running for-loop in its list (1-based)
    perf,           \* the list the running loop appends to
    commodity_perf,
    commodity_charts,       \* the names that have chart data
    top_5_commodities,
    all_stock_performance,
    bottom_5_stocks,
    index_changes,          \* index name -> list of week-over-week changes
    index_charts_data,      \* the index names that have chart data
    market_insights,        \* the list generate_market_insights returned
    html_content            \* the parts of the document that depend on the data

VARIABLES
    \* generate_market_insights applied on its own (SpecInsights)
    ins_step,               \* 0: arguments drawn, then 1, 2 after each call
    arg_commodities,        \* the six arguments
    arg_large_caps,
    arg_mid_caps,
    arg_small_caps,
    arg_bottom_performers,
    arg_indices,
    insights,               \* the list returned for the arguments
    insights_no_small       \* the list returned with small_caps = []

calc_vars == <<calc_step, in_symbols, in_feed, in_top_n, mt_result, tg_result, bp_result>>

ins_vars == <<ins_step, arg_commodities, arg_large_caps, arg_mid_caps, arg_small_caps,
              arg_bottom_performers, arg_indices, insights, insights_no_small>>

env_vars == <<outage, glitch, provider_changes>>

run_vars == <<pc, idx, perf, commodity_perf, commodity_charts, top_5_commodities,
              all_stock_performance, bottom_5_stocks, index_changes,
              index_charts_data, market_insights, html_content>>

vars == <<calc_vars, ins_vars, env_vars, run_vars>>

----------------------------------------------------------------------------
(* Bounds *)

\* closes of the calculator inputs range over 0..MaxPrice
MaxPrice == 3

\* number of symbols handed to the ranking functions in SpecRank
RankSyms == 4

\* the limits handed to the ranking functions in SpecRank range over 0..MaxTopN
MaxTopN == 3

\* how often the provider's behaviour changes during one run
MaxProviderChanges == 1

\* longest leaderboards handed to generate_market_insights in SpecInsights
MaxInsCommodities == 2
MaxInsLarge == 5
MaxInsMid == 1
MaxInsSmall == 3
MaxInsBottom == 3

----------------------------------------------------------------------------
(* Python floats.  The script computes on IEEE-754 doubles: every division, *)
(* multiplication and addition rounds its exact result to 53 significant    *)
(* bits, ties to even.  A double is [neg, man, exp], the value              *)
(* (-1)^neg * man * 2^exp with man of exactly 53 bits, or man = <<>> for a  *)
(* zero (which keeps its sign).  man and the intermediate results are wide  *)
(* naturals: sequences of limbs, least significant first.                   *)

\* bits per limb, and the limb base
LimbBits == 12
Base == 2^LimbBits

\* significant bits of a double
Precision == 53

\* limbs of fraction computed by a division of two integers, and limbs a
\* double is extended by before it is divided
QuotientLimbs == 7
DividendLimbs == 3

\* the wide natural without high zero limbs
RECURSIVE w_norm(_)
w_norm(W) ==
    IF W = <<>> THEN <<>>
    ELSE IF W[Len(W)] = 0 THEN w_norm(SubSeq(W, 1, Len(W) - 1))
    ELSE W

RECURSIVE w_of_nat(_)
w_of_nat(n) == IF n = 0 THEN <<>> ELSE <<n % Base>> \o w_of_nat(n \div Base)

RECURSIVE w_to_nat(_)
w_to_nat(W) == IF W = <<>> THEN 0 ELSE Head(W) + Base * w_to_nat(Tail(W))

\* number of bits of a limb
bit_length(n) == Cardinality({k \in 0..(LimbBits - 1) : n >= 2^k})

w_bits(W) == IF W = <<>> THEN 0 ELSE LimbBits * (Len(W) - 1) + bit_length(W[Len(W)])

\* W * k + carry
RECURSIVE w_mul_carry(_, _, _)
w_mul_carry(W, k, carry) ==
    IF W = <<>> THEN w_of_nat(carry)
    ELSE LET v == Head(W) * k + carry
         IN  <<v % Base>> \o w_mul_carry(Tail(W), k, v \div Base)

w_mul_small(W, k) == w_norm(w_mul_carry(W, k, 0))

\* quotient (same number of limbs) and remainder of W by d
RECURSIVE w_divmod(_, _)
w_divmod(W, d) ==
    IF W = <<>> THEN [q |-> <<>>, r |-> 0]
    ELSE LET hi == w_divmod(Tail(W), d)
             v == hi.r * Base + Head(W)
         IN  [q |-> <<v \div d>> \o hi.q, r |-> v % d]

\* limb i of W, zero beyond its length
limb(W, i) == IF i >= 1 /\ i <= Len(W) THEN W[i] ELSE 0

\* W * 2^k: whole limbs of zeros below, and every limb of the rest made of
\* the low bits of one limb of W and the high bits of the limb below it
w_shl(W, k) ==
    IF W = <<>> \/ k = 0 THEN W
    ELSE LET t == k % LimbBits
             low == 2^(LimbBits - t)
         IN  [i \in 1..(k \div LimbBits) |-> 0]
             \o w_norm([i \in 1..(Len(W) + 1) |->
                            (limb(W, i) % low) * 2^t + (limb(W, i - 1) \div low)])

\* W \div 2^s
w_shr(W, s) ==
    IF s \div LimbBits >= Len(W) THEN <<>>
    ELSE LET a == s \div LimbBits
             t == s % LimbBits
             high == 2^t
         IN  w_norm([i \in 1..(Len(W) - a) |->
                        (limb(W, i + a) \div high)
                        + (limb(W, i + a + 1) % high) * 2^(LimbBits - t)])

\* bit i of W (bit 0 is the lowest)
w_bit(W, i) ==
    IF (i \div LimbBits) + 1 > Len(W) THEN 0
    ELSE (W[(i \div LimbBits) + 1] \div 2^(i % LimbBits)) % 2

\* W % 2^s # 0
w_low_nonzero(W, s) ==
    \/ \E i \in 1..Len(W) : i <= s \div LimbBits /\ W[i] # 0
    \/ (s \div LimbBits) + 1 <= Len(W) /\ W[(s \div LimbBits) + 1] % 2^(s % LimbBits) # 0

RECURSIVE w_add_carry(_, _, _)
w_add_carry(X, Y, carry) ==
    IF X = <<>> /\ Y = <<>> THEN w_of_nat(carry)
    ELSE LET x == IF X = <<>> THEN 0 ELSE Head(X)
             y == IF Y = <<>> THEN 0 ELSE Head(Y)
             v == x + y + carry
         IN  <<v % Base>> \o w_add_carry(IF X = <<>> THEN <<>> ELSE Tail(X),
                                         IF Y = <<>> THEN <<>> ELSE Tail(Y),
                                         v \div Base)

w_add(X, Y) == w_add_carry(X, Y, 0)

\* X - Y - borrow, for X >= Y + borrow
RECURSIVE w_sub_borrow(_, _, _)
w_sub_borrow(X, Y, borrow) ==
    IF X = <<>> THEN <<>>
    ELSE LET y == IF Y = <<>> THEN 0 ELSE Head(Y)
             v == Head(X) - y - borrow
         IN  <<v % Base>> \o w_sub_borrow(Tail(X), IF Y = <<>> THEN <<>> ELSE Tail(Y),
                                          IF v < 0 THEN 1 ELSE 0)

w_sub(X, Y) == w_norm(w_sub_borrow(X, Y, 0))

\* X < Y, for X and Y without high zero limbs
RECURSIVE w_less(_, _)
w_less(X, Y) ==
    IF Len(X) # Len(Y) THEN Len(X) < Len(Y)
    ELSE IF X = <<>> THEN FALSE
    ELSE IF X[Len(X)] # Y[Len(Y)] THEN X[Len(X)] < Y[Len(Y)]
    ELSE w_less(SubSeq(X, 1, Len(X) - 1), SubSeq(Y, 1, Len(Y) - 1))

\* the integer nearest to W / 2^s, ties to even; inexact: W stands for a
\* value slightly above W
w_round_shift(W, s, inexact) ==
    IF s = 0 THEN W
    ELSE LET q == w_shr(W, s)
             up == /\ w_bit(W, s - 1) = 1
                   /\ \/ inexact
                      \/ w_low_nonzero(W, s - 1)
                      \/ w_bit(q, 0) = 1
         IN  IF up THEN w_add(q, <<1>>) ELSE q

fl_zero(neg) == [neg |-> neg, man |-> <<>>, exp |-> 0]

\* the double nearest to (-1)^neg * W * 2^exp, ties to even
fl_round(neg, W, exp, inexact) ==
    LET bits == w_bits(W)
        s == bits - Precision
        m == w_round_shift(W, s, inexact)
    IN  IF W = <<>> THEN fl_zero(neg)
        ELSE IF bits <= Precision
        THEN [neg |-> neg, man |-> w_shl(W, Precision - bits),
              exp |-> exp - (Precision - bits)]
        ELSE IF w_bits(m) > Precision
        THEN [neg |-> neg, man |-> w_shr(m, 1), exp |-> exp + s + 1]
        ELSE [neg |-> neg, man |-> m, exp |-> exp + s]

Abs(x) == IF x < 0 THEN -x ELSE x

\* the first k limbs of the fraction r / b, and what is left to divide
RECURSIVE fraction_limbs(_, _, _)
fraction_limbs(r, b, k) ==
    IF k = 0 THEN [w |-> <<>>, r |-> r]
    ELSE LET rest == fraction_limbs((r * Base) % b, b, k - 1)
         IN  [w |-> Append(rest.w, (r * Base) \div b), r |-> rest.r]

\* float(a) / float(b) for integers a and b, b # 0
fl_div_ints(a, b) ==
    LET f == fraction_limbs(Abs(a) % Abs(b), Abs(b), QuotientLimbs)
    IN  fl_round((a < 0) # (b < 0),
                 w_norm(f.w \o w_of_nat(Abs(a) \div Abs(b))),
                 -(LimbBits * QuotientLimbs), f.r # 0)

\* float(n)
fl_of_int(n) == fl_round(n < 0, w_of_nat(Abs(n)), 0, FALSE)

\* x * k for an integer k > 0
fl_mul_int(x, k) == fl_round(x.neg, w_mul_small(x.man, k), x.exp, FALSE)

\* x / d for an integer d > 0
fl_div_int(x, d) ==
    LET qr == w_divmod([i \in 1..DividendLimbs |-> 0] \o x.man, d)
    IN  IF x.man = <<>> THEN x
        ELSE fl_round(x.neg, w_norm(qr.q), x.exp - LimbBits * DividendLimbs, qr.r # 0)

\* x + y
fl_add(x, y) ==
    IF x.man = <<>> /\ y.man = <<>> THEN fl_zero(x.neg /\ y.neg)
    ELSE IF x.man = <<>> THEN y
    ELSE IF y.man = <<>> THEN x
    ELSE LET e == IF x.exp < y.exp THEN x.exp ELSE y.exp
             X == w_shl(x.man, x.exp - e)
             Y == w_shl(y.man, y.exp - e)
         IN  IF x.neg = y.neg THEN fl_round(x.neg, w_add(X, Y), e, FALSE)
             ELSE IF X = Y THEN fl_zero(FALSE)
             ELSE IF w_less(Y, X) THEN fl_round(x.neg, w_sub(X, Y), e, FALSE)
             ELSE fl_round(y.neg, w_sub(Y, X), e, FALSE)

\* |x| < |y| for x and y other than zero: both have 53 bits
fl_smaller(x, y) ==
    x.exp < y.exp \/ (x.exp = y.exp /\ w_less(x.man, y.man))

\* x < y
fl_less(x, y) ==
    IF x.man = <<>> /\ y.man = <<>> THEN FALSE
    ELSE IF x.man = <<>> THEN ~y.neg
    ELSE IF y.man = <<>> THEN x.neg
    ELSE IF x.neg # y.neg THEN x.neg
    ELSE IF x.neg THEN fl_smaller(y, x)
    ELSE fl_smaller(x, y)

\* the decimal rendering of x with `digits` digits after the point, as
\* format and round produce it: the sign, and the digits as a natural (the
\* integer nearest to |x| * 10^digits, ties to even)
fl_decimal(x, digits) ==
    LET W == w_mul_small(x.man, 10^digits)
    IN  [neg |-> x.neg,
         n |-> IF x.exp >= 0 THEN w_to_nat(w_shl(W, x.exp))
               ELSE w_to_nat(w_round_shift(W, -x.exp, FALSE))]

\* int(x): truncation towards zero
fl_int(x) ==
    LET n == IF x.exp >= 0 THEN w_to_nat(w_shl(x.man, x.exp))
             ELSE w_to_nat(w_shr(x.man, -x.exp))
    IN  IF x.neg THEN -n ELSE n

----------------------------------------------------------------------------
(* The data provider: yf.download returns a frame of closes or raises. *)

DownloadError == [ok |-> FALSE, closes |-> <<>>]

Frame(closes) == [ok |-> TRUE, closes |-> closes]

\* data['Close'].iloc[-j] of a frame with closes d
iloc(d, j) == d[Len(d) - j + 1]

\* round((current_price - price_ago) / price_ago * 100, 2) as the float
\* arithmetic yields it: the sign and the hundredths of the rounded change.
\* The closes are floats with integer values, so their difference is exact;
\* the division and the multiplication each round.  price_ago = 0 raises
\* ZeroDivisionError (see Raises).
rounded_change(current_price, price_ago) ==
    fl_decimal(fl_mul_int(fl_div_ints(current_price - price_ago, price_ago), 100), 2)

\* the number a rounded change stands for, in hundredths of a percent
hundredths(r) == IF r.neg THEN -r.n ELSE r.n

\* round returned -0.0: a fall that rounds to zero
is_negative_zero(r) == r.neg /\ r.n = 0

pct_change(current_price, price_ago) ==
    hundredths(rounded_change(current_price, price_ago))

\* day_1_change = 0 and the like: the integer 0 a change is preset to
preset_0 == [neg |-> FALSE, n |-> 0]

current_price(d) == iloc(d, 1)

day_1_change(d) ==
    IF Len(d) >= 2 THEN rounded_change(current_price(d), iloc(d, 2)) ELSE preset_0

week_1_change(d) ==
    IF Len(d) >= 6 THEN rounded_change(current_price(d), iloc(d, 6)) ELSE preset_0

month_3_change(d) ==
    IF Len(d) >= 64 THEN rounded_change(current_price(d), iloc(d, 64)) ELSE preset_0

month_6_change(d) ==
    IF Len(d) >= 127 THEN rounded_change(current_price(d), iloc(d, 127)) ELSE preset_0

\* the body of the try block raises ZeroDivisionError: one of the reference
\* closes it divides by is zero
Raises(d) ==
    \/ Len(d) >= 2 /\ iloc(d, 2) = 0
    \/ Len(d) >= 6 /\ iloc(d, 6) = 0
    \/ Len(d) >= 64 /\ iloc(d, 64) = 0
    \/ Len(d) >= 127 /\ iloc(d, 127) = 0

\* data.empty or len(data) < 2
Insufficient(d) == Len(d) < 2

\* the tuple returned on no data and on any exception: return 0, 0, 0, 0, 0
Zero5 == [price |-> 0, day_1 |-> 0, week_1 |-> 0, month_3 |-> 0, month_6 |-> 0,
          neg_zero |-> {}]

\* current_price, day_1_change, week_1_change, month_3_change, month_6_change
\* of a series no division of which raises
price_and_changes(d) ==
    LET d1 == day_1_change(d)
        w1 == week_1_change(d)
        m3 == month_3_change(d)
        m6 == month_6_change(d)
    IN  [price    |-> current_price(d),
         day_1    |-> hundredths(d1),
         week_1   |-> hundredths(w1),
         month_3  |-> hundredths(m3),
         month_6  |-> hundredths(m6),
         neg_zero |-> {f \in {"day_1"} : is_negative_zero(d1)}
                      \cup {f \in {"week_1"} : is_negative_zero(w1)}
                      \cup {f \in {"month_3"} : is_negative_zero(m3)}
                      \cup {f \in {"month_6"} : is_negative_zero(m6)}]

get_multi_timeframe_change(resp) ==
    IF ~resp.ok THEN Zero5
    ELSE IF Insufficient(resp.closes) THEN Zero5
    ELSE IF Raises(resp.closes) THEN Zero5
    ELSE price_and_changes(resp.closes)

\* the record (sym, current_price, day_1_change, ...)
record_of(sym, t) ==
    [sym |-> sym, price |-> t.price, day_1 |-> t.day_1, week_1 |-> t.week_1,
     month_3 |-> t.month_3, month_6 |-> t.month_6, neg_zero |-> t.neg_zero]

\* one iteration of the loop of get_daily_top_gainers and of
\* get_daily_bottom_performers: the records it appends to perf (none on
\* `continue`, which also ends the except branch)
perf_append(sym, resp) ==
    IF ~resp.ok THEN <<>>
    ELSE IF Insufficient(resp.closes) THEN <<>>
    ELSE IF Raises(resp.closes) THEN <<>>
    ELSE << record_of(sym, price_and_changes(resp.closes)) >>

\* the loop left at the first symbol that yields no record (break for continue)
RECURSIVE collect_until_failure(_, _)
collect_until_failure(symbols, feed) ==
    IF symbols = <<>> THEN <<>>
    ELSE IF perf_append(Head(symbols), feed[Head(symbols)]) = <<>> THEN <<>>
    ELSE perf_append(Head(symbols), feed[Head(symbols)])
         \o collect_until_failure(Tail(symbols), feed)

\* perf after the loop over symbols, each download answered by feed[sym]
RECURSIVE collect(_, _)
collect(symbols, feed) ==
    IF symbols = <<>> THEN <<>>
    ELSE perf_append(Head(symbols), feed[Head(symbols)]) \o collect(Tail(symbols), feed)

\* list.sort is stable, also with reverse=True: the place of a record is one
\* more than the number of records that sort before it, where a record sorts
\* before another when its key comes first, or the keys are equal and it was
\* appended earlier
place_reverse(records) ==
    <<>> \o [i \in 1..Len(records) |->
        1 + Cardinality({j \in 1..Len(records) :
                \/ records[j].day_1 > records[i].day_1
                \/ records[j].day_1 = records[i].day_1 /\ j < i})]

place_forward(records) ==
    <<>> \o [i \in 1..Len(records) |->
        1 + Cardinality({j \in 1..Len(records) :
                \/ records[j].day_1 < records[i].day_1
                \/ records[j].day_1 = records[i].day_1 /\ j < i})]

\* the list with records[i] moved to place[i]
arrange(records, place) ==
    [k \in 1..Len(records) |->
        records[CHOOSE i \in 1..Len(records) : place[i] = k]]

\* perf.sort(key=lambda x: x[2], reverse=True)
sort_reverse(records) ==
    LET place == place_reverse(records) IN arrange(records, place)

\* perf.sort(key=lambda x: x[2])
sort_forward(records) ==
    LET place == place_forward(records) IN arrange(records, place)

\* the slice lst[:n], n >= 0
Take(lst, n) == SubSeq(lst, 1, IF n < Len(lst) THEN n ELSE Len(lst))

\* the tail of get_daily_top_gainers once perf is collected
top_gainers_of(records, top_n) ==
    IF records = <<>> THEN <<>> ELSE Take(sort_reverse(records), top_n)

\* the tail of get_daily_bottom_performers once perf is collected
bottom_performers_of(records, bottom_n) ==
    IF records = <<>> THEN <<>> ELSE Take(sort_forward(records), bottom_n)

get_daily_top_gainers(symbols, feed, top_n) ==
    top_gainers_of(collect(symbols, feed), top_n)

get_daily_bottom_performers(symbols, feed, bottom_n) ==
    bottom_performers_of(collect(symbols, feed), bottom_n)


----------------------------------------------------------------------------
(* The stock universe, in the order get_nifty_500_stocks lists it *)

nifty_50 ==
    << "RELIANCE.NS", "TCS.NS", "HDFCBANK.NS", "INFY.NS", "HINDUNILVR.NS",
       "ICICIBANK.NS", "SBIN.NS", "BHARTIARTL.NS", "KOTAKBANK.NS", "LT.NS",
       "ITC.NS", "AXISBANK.NS", "BAJFINANCE.NS", "ASIANPAINT.NS", "MARUTI.NS",
       "HCLTECH.NS", "SUNPHARMA.NS", "TITAN.NS", "ULTRACEMCO.NS", "NESTLEIND.NS",
       "WIPRO.NS", "M&M.NS", "NTPC.NS", "POWERGRID.NS", "TATASTEEL.NS",
       "BAJAJFINSV.NS", "TECHM.NS", "ADANIPORTS.NS", "ONGC.NS", "COALINDIA.NS",
       "TATAMOTORS.NS", "GRASIM.NS", "JSWSTEEL.NS", "HINDALCO.NS", "INDUSINDBK.NS",
       "BPCL.NS", "CIPLA.NS", "DIVISLAB.NS", "DRREDDY.NS", "EICHERMOT.NS",
       "HEROMOTOCO.NS", "BRITANNIA.NS", "APOLLOHOSP.NS", "SHRIRAMFIN.NS", "ADANIENT.NS",
       "SBILIFE.NS", "BAJAJ-AUTO.NS", "HDFCLIFE.NS", "TRENT.NS", "PIDILITIND.NS" >>

nifty_midcap ==
    << "GODREJCP.NS", "VEDL.NS", "DLF.NS", "SAIL.NS", "BANKBARODA.NS",
       "GAIL.NS", "LUPIN.NS", "SIEMENS.NS", "BEL.NS", "CANBK.NS",
       "PNB.NS", "INDIGO.NS", "NMDC.NS", "IOC.NS", "IDEA.NS",
       "TORNTPHARM.NS", "MOTHERSON.NS", "BOSCHLTD.NS", "PETRONET.NS", "HAVELLS.NS",
       "DABUR.NS", "AMBUJACEM.NS", "ACC.NS", "CONCOR.NS", "MUTHOOTFIN.NS",
       "PAGEIND.NS", "BERGEPAINT.NS", "COLPAL.NS", "MARICO.NS", "GODREJPROP.NS",
       "BANDHANBNK.NS", "ABBOTINDIA.NS", "BIOCON.NS", "ALKEM.NS", "PIIND.NS",
       "MCDOWELL-N.NS", "AUROPHARMA.NS", "LICI.NS", "HDFCAMC.NS", "INDUSTOWER.NS",
       "ZYDUSLIFE.NS", "TATACOMM.NS", "IPCALAB.NS", "BALKRISIND.NS", "TATAPOWER.NS",
       "ICICIGI.NS", "PERSISTENT.NS", "OBEROIRLTY.NS", "SBICARD.NS", "CUMMINSIND.NS" >>

nifty_smallcap ==
    << "IRCTC.NS", "POLYCAB.NS", "CROMPTON.NS", "HONAUT.NS", "JUBLFOOD.NS",
       "ASTRAL.NS", "Dixon.NS", "SCHAEFFLER.NS", "GICRE.NS", "LTIM.NS",
       "COFORGE.NS", "KPITTECH.NS", "MPHASIS.NS", "SONACOMS.NS", "OFSS.NS",
       "CLEAN.NS", "LTTS.NS", "FLUOROCHEM.NS", "KAJARIACER.NS", "VOLTAS.NS",
       "AMBER.NS", "ATUL.NS", "FINEORG.NS", "GNFC.NS", "NAVINFLUOR.NS",
       "IDFCFIRSTB.NS", "RECLTD.NS", "PFC.NS", "IRFC.NS", "CDSL.NS",
       "NYKAA.NS", "ZOMATO.NS", "PAYTM.NS", "POLICYBZR.NS", "DELHIVERY.NS" >>

\* large_caps, mid_caps, small_caps = get_nifty_500_stocks()
large_caps == nifty_50
mid_caps == nifty_midcap
small_caps == nifty_smallcap

all_stocks == large_caps \o mid_caps \o small_caps

\* the commodities dict, in insertion order: (name, symbol)
commodities ==
    << <<"Gold", "GLD">>, <<"Silver", "SLV">>, <<"Crude Oil", "USO">>,
       <<"Natural Gas", "UNG">>, <<"Copper", "CPER">> >>

\* the indices dict, in insertion order: (name, symbol)
indices == << <<"SENSEX", "^BSESN">>, <<"NIFTY", "^NSEI">> >>

\* sym in lst
InList(sym, lst) == \E i \in 1..Len(lst) : lst[i] = sym

\* get_index_weekly_changes: the body raises ZeroDivisionError
IndexRaises(d) ==
    Len(d) >= 10 /\ \E i \in 1..(Len(d) - 5) : d[i] = 0

\* get_index_weekly_changes: (changes, whether the returned frame has rows);
\* a change is kept without its date label, and without the sign of a zero,
\* which no use of the list shows
get_index_weekly_changes(resp) ==
    IF ~resp.ok THEN [changes |-> <<>>, has_data |-> FALSE]
    ELSE IF Len(resp.closes) < 6 THEN [changes |-> <<>>, has_data |-> FALSE]
    ELSE IF IndexRaises(resp.closes) THEN [changes |-> <<>>, has_data |-> FALSE]
    ELSE [changes |->
              IF Len(resp.closes) >= 10
              THEN [i \in 1..(Len(resp.closes) - 5) |->
                       pct_change(resp.closes[i + 5], resp.closes[i])]
              ELSE <<>>,
          has_data |-> TRUE]

----------------------------------------------------------------------------
(* The data provider of a run.  It holds one series per instrument; it can  *)
(* be down, and a single download can fail.  Its behaviour may change       *)
(* before any download (ProviderChanges).                                   *)

\* position of a symbol in its list
PosIn(lst, sym) == CHOOSE i \in 1..Len(lst) : lst[i] = sym

StockPos(sym) == PosIn(all_stocks, sym)

Delta(p) == ((p * 7) % 13) - 6

\* the closes held for the p-th instrument of a list: a week of bars for
\* most, for some no bar, one bar, or a zero close a day ago
Closes(p) ==
    CASE p % 17 = 0  -> <<>>
      [] p % 17 = 5  -> <<100>>
      [] p % 17 = 11 -> <<0, 100>>
      [] OTHER       -> <<95, 98, 100, 100, 100, 100, 100 + Delta(p)>>

\* the closes held for the p-th index over the last month
IndexCloses(p) == [i \in 1..11 |-> 100 + i * (2 * p - 3)]

\* the provider raises on the download that comes next
Down == outage \/ glitch

\* yf.download(sym, ...) for a stock, a commodity ETF, an index
download_stock(sym) ==
    IF Down THEN DownloadError ELSE Frame(Closes(StockPos(sym)))

download_commodity(p) ==
    IF Down THEN DownloadError ELSE Frame(Closes(p))

download_index(p) ==
    IF Down THEN DownloadError ELSE Frame(IndexCloses(p))

----------------------------------------------------------------------------
(* One run of the script, section by section *)

\* the tier filter applied to the truncated overall list
large_cap_of_top_10 ==
    SelectSeq(SubSeq(all_stock_performance, 1,
                     IF 10 < Len(all_stock_performance) THEN 10
                     ELSE Len(all_stock_performance)),
              LAMBDA s : InList(s.sym, large_caps))

\* Filter by market cap category
large_cap_performance ==
    SelectSeq(all_stock_performance, LAMBDA s : InList(s.sym, large_caps))
mid_cap_performance ==
    SelectSeq(all_stock_performance, LAMBDA s : InList(s.sym, mid_caps))
small_cap_performance ==
    SelectSeq(all_stock_performance, LAMBDA s : InList(s.sym, small_caps))

\* Get top performers from each category
top_10_large ==
    IF large_cap_performance # <<>> THEN Take(large_cap_performance, 10) ELSE <<>>
top_5_mid ==
    IF mid_cap_performance # <<>> THEN Take(mid_cap_performance, 5) ELSE <<>>
top_5_small ==
    IF small_cap_performance # <<>> THEN Take(small_cap_performance, 5) ELSE <<>>
top_10_overall ==
    IF all_stock_performance # <<>> THEN Take(all_stock_performance, 10) ELSE <<>>

\* len([s for s in lst if s[2] > 0]), len([s for s in lst if s[2] < 0])
count_gainers(lst) == Cardinality({i \in 1..Len(lst) : lst[i].day_1 > 0})
count_losers(lst) == Cardinality({i \in 1..Len(lst) : lst[i].day_1 < 0})

\* the Market Breadth stat box: f"{gainers / len(all_stock_performance) * 100:.0f}",
\* the digits printed (the ratio is never negative)
header_breadth ==
    fl_decimal(fl_mul_int(fl_div_ints(count_gainers(all_stock_performance),
                                      Len(all_stock_performance)), 100), 0).n

NoDocument == [built |-> FALSE]

(* generate_market_insights.  An insight is kept as its rule's title, the  *)
(* instrument it names and the numbers interpolated into its text, each as *)
(* the characters the format specification yields.                         *)

\* the characters of a decimal rendering d of fl_decimal with `decimals`
\* digits after the point: the integer part and the digits after the point
\* (frac, as a number)
digits_of(sign, n, decimals) ==
    [sign |-> sign, int |-> n \div 10^decimals, frac |-> n % 10^decimals,
     decimals |-> decimals]

\* f"{x:+.2f}" of a change x in hundredths; negative_zero: x is -0.0
fmt_signed(x, negative_zero) ==
    digits_of(IF x < 0 \/ negative_zero THEN "-" ELSE "+", Abs(x), 2)

\* f"{x:.2f}"
fmt_plain(x, negative_zero) ==
    digits_of(IF x < 0 \/ negative_zero THEN "-" ELSE "", Abs(x), 2)

\* f"{rec[field]:+.2f}" and f"{rec[field]:.2f}" for a change of a record
fmt_signed_field(rec, field) == fmt_signed(rec[field], field \in rec.neg_zero)
fmt_plain_field(rec, field) == fmt_plain(rec[field], field \in rec.neg_zero)

\* f"{x:.1f}" of a float x
fmt_one_decimal(x) ==
    LET d == fl_decimal(x, 1)
    IN  digits_of(IF d.neg THEN "-" ELSE "", d.n, 1)

\* the float item[2] of a record: the double nearest to the rounded change
day_1_float(rec) ==
    IF rec.day_1 = 0 THEN fl_zero("day_1" \in rec.neg_zero)
    ELSE fl_div_ints(rec.day_1, 100)

\* sum(item[2] for item in lst): the items are added from the left to the
\* integer 0
RECURSIVE sum_from(_, _)
sum_from(acc, lst) ==
    IF lst = <<>> THEN acc
    ELSE sum_from(fl_add(acc, day_1_float(Head(lst))), Tail(lst))

sum_day_1(lst) == sum_from(fl_zero(FALSE), lst)

\* sum(item[2] for item in lst[:3]) / 3
avg_top_3(lst) == fl_div_int(sum_day_1(Take(lst, 3)), 3)

Insight(rule, subject, figures) ==
    [rule |-> rule, subject |-> subject, figures |-> figures]

Disclaimer == Insight("Disclaimer", "", <<>>)

\* the momentum rule with the comparison top_commodity[2] >= 3
commodity_insights_from_3(cs) ==
    IF cs = <<>> THEN <<>>
    ELSE LET top_commodity == cs[1]
             worst_commodity == cs[Len(cs)]
         IN  (IF top_commodity.day_1 >= 300
              THEN << Insight("Commodity Momentum", top_commodity.sym,
                              << fmt_signed_field(top_commodity, "day_1"),
                                 fmt_signed_field(top_commodity, "month_6") >>) >>
              ELSE <<>>)
             \o
             (IF worst_commodity.day_1 < -300
              THEN << Insight("Commodity Weakness", worst_commodity.sym,
                              << fmt_plain_field(worst_commodity, "day_1"),
                                 fmt_signed_field(worst_commodity, "month_3") >>) >>
              ELSE <<>>)

commodity_insights(cs) ==
    IF cs = <<>> THEN <<>>
    ELSE LET top_commodity == cs[1]
             worst_commodity == cs[Len(cs)]
         IN  (IF top_commodity.day_1 > 300
              THEN << Insight("Commodity Momentum", top_commodity.sym,
                              << fmt_signed_field(top_commodity, "day_1"),
                                 fmt_signed_field(top_commodity, "month_6") >>) >>
              ELSE <<>>)
             \o
             (IF worst_commodity.day_1 < -300
              THEN << Insight("Commodity Weakness", worst_commodity.sym,
                              << fmt_plain_field(worst_commodity, "day_1"),
                                 fmt_signed_field(worst_commodity, "month_3") >>) >>
              ELSE <<>>)

large_cap_insights(ls) ==
    IF ls # <<>> /\ Len(ls) >= 3
    THEN LET top_3_avg == avg_top_3(ls)
             consistent_gainers == {i \in 1..Len(ls) : ls[i].day_1 > 150}
         IN  (IF fl_less(fl_of_int(2), top_3_avg)
              THEN << Insight("Large Cap Leaders", ls[1].sym,
                              << fmt_signed_field(ls[1], "day_1"),
                                 fmt_signed_field(ls[1], "week_1") >>) >>
              ELSE <<>>)
             \o
             (IF Cardinality(consistent_gainers) >= 5
              THEN << Insight("Broad Market Strength", "",
                              << Cardinality(consistent_gainers) >>) >>
              ELSE <<>>)
    ELSE <<>>

mid_cap_insights(ms) ==
    IF ms = <<>> THEN <<>>
    ELSE LET top_mid == ms[1]
         IN  IF top_mid.day_1 > 300
             THEN IF top_mid.month_6 > 1500
                  THEN << Insight("Mid Cap Hot Pick", top_mid.sym,
                                  << fmt_signed_field(top_mid, "day_1"),
                                     fmt_signed_field(top_mid, "month_6") >>) >>
                  ELSE << Insight("Mid Cap Opportunity", top_mid.sym,
                                  << fmt_signed_field(top_mid, "day_1") >>) >>
             ELSE <<>>

small_cap_insights(ss, ls) ==
    IF ss = <<>> THEN <<>>
    ELSE LET top_small == ss[1]
             small_avg == avg_top_3(ss)
             large_avg == avg_top_3(ls)
         IN  (IF top_small.day_1 > 500
              THEN << Insight("Small Cap Breakout", top_small.sym,
                              << fmt_signed_field(top_small, "day_1") >>) >>
              ELSE <<>>)
             \o
             (IF ss # <<>> /\ ls # <<>>
                 /\ fl_less(fl_add(large_avg, fl_of_int(2)), small_avg)
              THEN << Insight("Small Cap Outperformance", "",
                              << fmt_one_decimal(small_avg),
                                 fmt_one_decimal(large_avg) >>) >>
              ELSE <<>>)

\* the bottom rules guarded by `if bottom_performers:` alone
bottom_insights_any_length(bs) ==
    IF bs # <<>>
    THEN LET worst_stock == bs[1]
             heavy_losers == {i \in 1..Len(bs) : bs[i].day_1 < -300}
         IN  (IF worst_stock.day_1 < -500
              THEN IF worst_stock.month_6 < -2000
                   THEN << Insight("Structural Decline", worst_stock.sym,
                                   << fmt_plain_field(worst_stock, "day_1"),
                                      fmt_plain_field(worst_stock, "month_6") >>) >>
                   ELSE << Insight("Sharp Drop Alert", worst_stock.sym,
                                   << fmt_plain_field(worst_stock, "day_1"),
                                      fmt_signed_field(worst_stock, "month_6") >>) >>
              ELSE <<>>)
             \o
             (IF Cardinality(heavy_losers) >= 3
              THEN << Insight("Market Weakness Detected", "",
                              << Cardinality(heavy_losers) >>) >>
              ELSE <<>>)
    ELSE <<>>

bottom_insights(bs) ==
    IF bs # <<>> /\ Len(bs) >= 2
    THEN LET worst_stock == bs[1]
             heavy_losers == {i \in 1..Len(bs) : bs[i].day_1 < -300}
         IN  (IF worst_stock.day_1 < -500
              THEN IF worst_stock.month_6 < -2000
                   THEN << Insight("Structural Decline", worst_stock.sym,
                                   << fmt_plain_field(worst_stock, "day_1"),
                                      fmt_plain_field(worst_stock, "month_6") >>) >>
                   ELSE << Insight("Sharp Drop Alert", worst_stock.sym,
                                   << fmt_plain_field(worst_stock, "day_1"),
                                      fmt_signed_field(worst_stock, "month_6") >>) >>
              ELSE <<>>)
             \o
             (IF Cardinality(heavy_losers) >= 3
              THEN << Insight("Market Weakness Detected", "",
                              << Cardinality(heavy_losers) >>) >>
              ELSE <<>>)
    ELSE <<>>

\* the index rule for one entry of the dict
index_insight(idx_name, changes_list) ==
    IF changes_list = <<>> THEN <<>>
    ELSE LET latest_change == changes_list[Len(changes_list)]
         IN  IF latest_change > 200
             THEN << Insight("Bullish", idx_name, << fmt_signed(latest_change, FALSE) >>) >>
             ELSE IF latest_change < -200
             THEN << Insight("Bearish", idx_name, << fmt_plain(latest_change, FALSE) >>) >>
             ELSE <<>>

\* for idx_name, changes in indices.items(), in the dict's order
RECURSIVE index_insights(_, _)
index_insights(names, ic) ==
    IF names = <<>> THEN <<>>
    ELSE index_insight(Head(names), ic[Head(names)]) \o index_insights(Tail(names), ic)

\* all_tracked, total_gainers, total_stocks of the breadth rule
all_tracked(ls, ms, ss) == ls \o ms \o ss
total_gainers(ls, ms, ss) == count_gainers(all_tracked(ls, ms, ss))
total_stocks(ls, ms, ss) == Len(all_tracked(ls, ms, ss))

\* gainer_ratio = total_gainers / total_stocks (total_stocks > 0 behind the
\* rule's guard)
gainer_ratio(ls, ms, ss) ==
    fl_div_ints(total_gainers(ls, ms, ss), total_stocks(ls, ms, ss))

\* int(gainer_ratio * 100)
gainer_percent(ratio) == fl_int(fl_mul_int(ratio, 100))

\* the float literals 0.7 and 0.3
literal_0_7 == fl_div_ints(7, 10)
literal_0_3 == fl_div_ints(3, 10)

breadth_insights(ls, ms, ss) ==
    IF ls # <<>> /\ ms # <<>>
    THEN LET ratio == gainer_ratio(ls, ms, ss)
         IN  IF fl_less(literal_0_7, ratio)
             THEN << Insight("Strong Market Breadth", "", << gainer_percent(ratio) >>) >>
             ELSE IF fl_less(ratio, literal_0_3)
             THEN << Insight("Weak Market Breadth", "", << gainer_percent(ratio) >>) >>
             ELSE <<>>
    ELSE <<>>

\* the disclaimer appended before the market sentiment rule
insights_disclaimer_early(cs, ls, ms, ss, bs, names, ic) ==
    commodity_insights(cs) \o large_cap_insights(ls) \o mid_cap_insights(ms)
    \o small_cap_insights(ss, ls) \o bottom_insights(bs)
    \o index_insights(names, ic) \o << Disclaimer >>
    \o breadth_insights(ls, ms, ss)

generate_market_insights(cs, ls, ms, ss, bs, names, ic) ==
    commodity_insights(cs) \o large_cap_insights(ls) \o mid_cap_insights(ms)
    \o small_cap_insights(ss, ls) \o bottom_insights(bs)
    \o index_insights(names, ic) \o breadth_insights(ls, ms, ss)
    \o << Disclaimer >>

\* the keys of the indices dict, in insertion order
index_names == [i \in 1..Len(indices) |-> indices[i][1]]

\* the names of the commodities dict, in insertion order
commodity_names == [i \in 1..Len(commodities) |-> commodities[i][1]]


\* the first half of the commodity loop body: one call of
\* get_multi_timeframe_change, and the record appended whatever it returned
FetchCommodity ==
    /\ pc = "commodities"
    /\ idx <= Len(commodities)
    /\ commodity_perf' =
           Append(commodity_perf,
                  record_of(commodities[idx][1],
                            get_multi_timeframe_change(download_commodity(idx))))
    /\ pc' = "commodity_chart"
    /\ glitch' = FALSE
    /\ UNCHANGED <<idx, perf, commodity_charts, top_5_commodities, all_stock_performance,
                   bottom_5_stocks, index_changes, index_charts_data, market_insights,
                   html_content>>
    /\ UNCHANGED <<calc_vars, ins_vars, outage, provider_changes>>

\* the second half of the commodity loop body: the download of the chart data
FetchCommodityChart ==
    /\ pc = "commodity_chart"
    /\ LET name == commodities[idx][1]
           chart == download_commodity(idx)
       IN  commodity_charts' =
                   IF chart.ok /\ chart.closes # <<>>
                   THEN commodity_charts \cup {name} ELSE commodity_charts
    /\ pc' = "commodities"
    /\ idx' = idx + 1
    /\ glitch' = FALSE
    /\ UNCHANGED <<perf, commodity_perf, top_5_commodities, all_stock_performance,
                   bottom_5_stocks, index_changes, index_charts_data, market_insights,
                   html_content>>
    /\ UNCHANGED <<calc_vars, ins_vars, outage, provider_changes>>

\* commodity_perf.sort(...); top_5_commodities = commodity_perf[:5]; then
\* the stock universe is loaded and get_daily_top_gainers is entered
RankCommodities ==
    /\ pc = "commodities"
    /\ idx > Len(commodities)
    /\ commodity_perf' = sort_reverse(commodity_perf)
    /\ top_5_commodities' = Take(sort_reverse(commodity_perf), 5)
    /\ pc' = "stocks"
    /\ UNCHANGED <<idx, perf, commodity_charts, all_stock_performance,
                   bottom_5_stocks, index_changes, index_charts_data, market_insights, html_content>>
    /\ UNCHANGED <<calc_vars, ins_vars, env_vars>>

\* the universe is loaded and get_daily_top_gainers(all_stocks, ...) is
\* entered: perf = []
EnterTopGainers ==
    /\ pc = "stocks"
    /\ pc' = "top_gainers"
    /\ idx' = 1
    /\ perf' = <<>>
    /\ UNCHANGED <<commodity_perf, commodity_charts, top_5_commodities,
                   all_stock_performance, bottom_5_stocks, index_changes,
                   index_charts_data, market_insights, html_content>>
    /\ UNCHANGED <<calc_vars, ins_vars, env_vars>>

\* one iteration of the loop of get_daily_top_gainers(all_stocks, ...)
FetchStock ==
    /\ pc = "top_gainers"
    /\ idx <= Len(all_stocks)
    /\ perf' = perf \o perf_append(all_stocks[idx], download_stock(all_stocks[idx]))
    /\ idx' = idx + 1
    /\ glitch' = FALSE
    /\ UNCHANGED <<pc, commodity_perf, commodity_charts, top_5_commodities,
                   all_stock_performance, bottom_5_stocks, index_changes,
                   index_charts_data, market_insights, html_content>>
    /\ UNCHANGED <<calc_vars, ins_vars, outage, provider_changes>>

\* get_daily_top_gainers sorts perf in place and returns its slice, which
\* is assigned to all_stock_performance
RankStocks ==
    /\ pc = "top_gainers"
    /\ idx > Len(all_stocks)
    /\ perf' = sort_reverse(perf)
    /\ all_stock_performance' = top_gainers_of(perf, Len(all_stocks))
    /\ pc' = "bottom"
    /\ UNCHANGED <<idx, commodity_perf, commodity_charts, top_5_commodities,
                   bottom_5_stocks, index_changes, index_charts_data, market_insights, html_content>>
    /\ UNCHANGED <<calc_vars, ins_vars, env_vars>>

\* get_daily_bottom_performers(all_stocks, bottom_n=5) is entered: perf = []
EnterBottomPerformers ==
    /\ pc = "bottom"
    /\ pc' = "bottom_performers"
    /\ idx' = 1
    /\ perf' = <<>>
    /\ UNCHANGED <<commodity_perf, commodity_charts, top_5_commodities,
                   all_stock_performance, bottom_5_stocks, index_changes,
                   index_charts_data, market_insights, html_content>>
    /\ UNCHANGED <<calc_vars, ins_vars, env_vars>>

\* one iteration of the loop of get_daily_bottom_performers(all_stocks, 5)
FetchBottom ==
    /\ pc = "bottom_performers"
    /\ idx <= Len(all_stocks)
    /\ perf' = perf \o perf_append(all_stocks[idx], download_stock(all_stocks[idx]))
    /\ idx' = idx + 1
    /\ glitch' = FALSE
    /\ UNCHANGED <<pc, commodity_perf, commodity_charts, top_5_commodities,
                   all_stock_performance, bottom_5_stocks, index_changes,
                   index_charts_data, market_insights, html_content>>
    /\ UNCHANGED <<calc_vars, ins_vars, outage, provider_changes>>

\* get_daily_bottom_performers sorts perf in place and returns its slice,
\* which is assigned to bottom_5_stocks; the index loop starts
RankBottom ==
    /\ pc = "bottom_performers"
    /\ idx > Len(all_stocks)
    /\ perf' = sort_forward(perf)
    /\ bottom_5_stocks' = bottom_performers_of(perf, 5)
    /\ pc' = "indices"
    /\ idx' = 1
    /\ UNCHANGED <<commodity_perf, commodity_charts, top_5_commodities,
                   all_stock_performance, index_changes, index_charts_data,
                   market_insights, html_content>>
    /\ UNCHANGED <<calc_vars, ins_vars, env_vars>>

\* the index loop body
FetchIndex ==
    /\ pc = "indices"
    /\ idx <= Len(indices)
    /\ LET name == indices[idx][1]
           r == get_index_weekly_changes(download_index(idx))
       IN  /\ index_changes' = [index_changes EXCEPT ![name] = r.changes]
           /\ index_charts_data' =
                   IF r.has_data THEN index_charts_data \cup {name}
                   ELSE index_charts_data
    /\ idx' = idx + 1
    /\ pc' = IF idx = Len(indices) THEN "insights" ELSE pc
    /\ glitch' = FALSE
    /\ UNCHANGED <<perf, commodity_perf, commodity_charts, top_5_commodities,
                   all_stock_performance, bottom_5_stocks, market_insights, html_content>>
    /\ UNCHANGED <<calc_vars, ins_vars, outage, provider_changes>>

\* market_insights = generate_market_insights(top_5_commodities, ...)
GenerateInsights ==
    /\ pc = "insights"
    /\ market_insights' =
           generate_market_insights(top_5_commodities, top_10_large, top_5_mid,
                                    top_5_small, bottom_5_stocks, index_names,
                                    index_changes)
    /\ pc' = "report"
    /\ UNCHANGED <<idx, perf, commodity_perf, commodity_charts, top_5_commodities,
                   all_stock_performance, bottom_5_stocks, index_changes,
                   index_charts_data, html_content>>
    /\ UNCHANGED <<calc_vars, ins_vars, env_vars>>

\* html_content is assembled; its first expression divides by
\* len(all_stock_performance), and nothing catches the ZeroDivisionError
BuildReport ==
    /\ pc = "report"
    /\ IF all_stock_performance = <<>>
       THEN /\ pc' = "crashed"
            /\ UNCHANGED html_content
       ELSE /\ pc' = "send"
            /\ html_content' =
                 [built       |-> TRUE,
                  tracked     |-> Len(all_stocks),
                  gainers     |-> count_gainers(all_stock_performance),
                  losers      |-> count_losers(all_stock_performance),
                  breadth     |-> header_breadth,
                  commodities |->
                      IF top_5_commodities # <<>> /\
                         \E i \in 1..Len(top_5_commodities) :
                             top_5_commodities[i].day_1 # 0
                      THEN "table" ELSE "No commodity data available",
                  overall   |-> IF top_10_overall # <<>> THEN "table"
                                ELSE "No overall market data available",
                  large_cap |-> IF top_10_large # <<>> THEN "table"
                                ELSE "No large cap data available",
                  mid_cap   |-> IF top_5_mid # <<>> THEN "table"
                                ELSE "No mid cap data available",
                  small_cap |-> IF top_5_small # <<>> THEN "table"
                                ELSE "No small cap data available",
                  bottom    |-> IF bottom_5_stocks # <<>> THEN "table"
                                ELSE "No bottom performer data available",
                  index     |-> IF index_charts_data # {} THEN "chart"
                                ELSE "No index data available",
                  insights  |-> market_insights]
    /\ UNCHANGED <<idx, perf, commodity_perf, commodity_charts, top_5_commodities,
                   all_stock_performance, bottom_5_stocks, index_changes,
                   index_charts_data, market_insights>>
    /\ UNCHANGED <<calc_vars, ins_vars, env_vars>>

\* the delivery: sent, or the exception is printed and re-raised
SendEmail ==
    /\ pc = "send"
    /\ \E sent \in BOOLEAN : pc' = IF sent THEN "done" ELSE "failed"
    /\ UNCHANGED <<idx, perf, commodity_perf, commodity_charts, top_5_commodities,
                   all_stock_performance, bottom_5_stocks, index_changes,
                   index_charts_data, market_insights, html_content>>
    /\ UNCHANGED <<calc_vars, ins_vars, env_vars>>

\* the script is about to call yf.download
DownloadNext ==
    \/ pc = "commodities" /\ idx <= Len(commodities)
    \/ pc = "commodity_chart"
    \/ pc \in {"top_gainers", "bottom_performers"} /\ idx <= Len(all_stocks)
    \/ pc = "indices"

\* every call of yf.download is a request of its own: before any of them the
\* provider may go down or come back, or fail for that one request
ProviderChanges ==
    /\ DownloadNext
    /\ provider_changes < MaxProviderChanges
    /\ \/ outage' = ~outage /\ glitch' = glitch
       \/ ~Down /\ glitch' = TRUE /\ outage' = outage
    /\ provider_changes' = provider_changes + 1
    /\ UNCHANGED <<calc_vars, ins_vars, run_vars>>

----------------------------------------------------------------------------
(* The calculators on their own: inputs drawn in Init, one call per action *)

\* a frame of n closes: a latest, b, c, d, e at the four lookbacks, g elsewhere
Series(n, a, b, c, d, e, g) ==
    [i \in 1..n |->
        IF i = n THEN a
        ELSE IF i = n - 1 THEN b
        ELSE IF i = n - 5 THEN c
        ELSE IF i = n - 63 THEN d
        ELSE IF i = n - 126 THEN e
        ELSE g]

CalcLens == {0, 1, 2, 5, 6, 7, 63, 64, 126, 127, 128}

\* two-bar frames whose change the float arithmetic decides: a quotient
\* halfway between two hundredths, and a fall that rounds to -0.0
FloatFrames ==
    { Frame(<<160, 183>>), Frame(<<160, 67>>), Frame(<<100000, 99999>>) }

CalcInputs ==
    {DownloadError} \cup FloatFrames \cup
    { Frame(Series(n, a, b, c, d, e, g)) :
        n \in CalcLens, a \in 0..MaxPrice, b \in 0..MaxPrice, c \in 0..MaxPrice,
        d \in 0..MaxPrice, e \in 0..MaxPrice, g \in 0..1 }

RankInputs ==
    { DownloadError, Frame(<<>>), Frame(<<100>>), Frame(<<0, 100>>),
      Frame(<<100, 105>>), Frame(<<100, 103>>), Frame(<<100, 99>>) }

NoResult == <<>>

\* the run's variables while the functions are applied on their own
RunIdle ==
    /\ outage = FALSE
    /\ glitch = FALSE
    /\ provider_changes = 0
    /\ pc = "idle"
    /\ idx = 1
    /\ perf = <<>>
    /\ commodity_perf = <<>>
    /\ commodity_charts = {}
    /\ top_5_commodities = <<>>
    /\ all_stock_performance = <<>>
    /\ bottom_5_stocks = <<>>
    /\ index_changes = [n \in {indices[i][1] : i \in 1..Len(indices)} |-> <<>>]
    /\ index_charts_data = {}
    /\ market_insights = <<>>
    /\ html_content = NoDocument

\* the arguments of generate_market_insights while it is not applied on its own
InsIdle ==
    /\ ins_step = 0
    /\ arg_commodities = <<>>
    /\ arg_large_caps = <<>>
    /\ arg_mid_caps = <<>>
    /\ arg_small_caps = <<>>
    /\ arg_bottom_performers = <<>>
    /\ arg_indices = [n \in {indices[i][1] : i \in 1..Len(indices)} |-> <<>>]
    /\ insights = NoResult
    /\ insights_no_small = NoResult

CalcInit ==
    /\ RunIdle
    /\ InsIdle
    /\ calc_step = 0
    /\ in_symbols = <<"GLD">>
    /\ in_feed \in [{"GLD"} -> CalcInputs]
    /\ in_top_n = 5
    /\ mt_result = Zero5
    /\ tg_result = NoResult
    /\ bp_result = NoResult

RankInit ==
    /\ RunIdle
    /\ InsIdle
    /\ calc_step = 0
    /\ in_symbols = SubSeq(nifty_50, 1, RankSyms)
    /\ in_feed \in [{in_symbols[i] : i \in 1..RankSyms} -> RankInputs]
    /\ in_top_n \in 0..MaxTopN
    /\ mt_result = Zero5
    /\ tg_result = NoResult
    /\ bp_result = NoResult

CallMulti ==
    /\ calc_step = 0
    /\ mt_result' = get_multi_timeframe_change(in_feed[in_symbols[1]])
    /\ calc_step' = 1
    /\ UNCHANGED <<in_symbols, in_feed, in_top_n, tg_result, bp_result>>
    /\ UNCHANGED <<ins_vars, env_vars, run_vars>>

CallTopGainers ==
    /\ calc_step = 1
    /\ tg_result' = get_daily_top_gainers(in_symbols, in_feed, in_top_n)
    /\ calc_step' = 2
    /\ UNCHANGED <<in_symbols, in_feed, in_top_n, mt_result, bp_result>>
    /\ UNCHANGED <<ins_vars, env_vars, run_vars>>

CallBottomPerformers ==
    /\ calc_step = 2
    /\ bp_result' = get_daily_bottom_performers(in_symbols, in_feed, in_top_n)
    /\ calc_step' = 3
    /\ UNCHANGED <<in_symbols, in_feed, in_top_n, mt_result, tg_result>>
    /\ UNCHANGED <<ins_vars, env_vars, run_vars>>

CalcNext == CallMulti \/ CallTopGainers \/ CallBottomPerformers

SpecCalc == CalcInit /\ [][CalcNext]_vars

SpecRank == RankInit /\ [][CalcNext]_vars

----------------------------------------------------------------------------
(* generate_market_insights on its own: leaderboards drawn in Init, then the *)
(* call with them, then the call with the same arguments but small_caps = [] *)

\* a record of a leaderboard; the longer-term changes all equal the trend,
\* which is a number of hundredths or the float -0.0
InsRecord(sym, day_1, trend) ==
    [sym |-> sym, price |-> 100, day_1 |-> day_1, week_1 |-> trend.change,
     month_3 |-> trend.change, month_6 |-> trend.change,
     neg_zero |-> IF trend.negative_zero THEN {"week_1", "month_3", "month_6"} ELSE {}]

\* n records over syms in descending order of 1-day change, from top down
gainers_board(syms, n, top, step, trend) ==
    [i \in 1..n |-> InsRecord(syms[i], top - (i - 1) * step, trend)]

\* n records over syms in ascending order of 1-day change, from low up
losers_board(syms, n, low, step, trend) ==
    [i \in 1..n |-> InsRecord(syms[i], low + (i - 1) * step, trend)]

\* 1-day change of the first record of the commodity, large-cap and mid-cap
\* boards, and of the small-cap board; the longer-term change
InsTops == {0, 300, 420}
InsSmallTops == {0, 900}

\* 1-day change of the first record of the bottom board drawn along with a
\* top: the deeper the higher the top
InsLow(hi) == -300 - hi
InsTrends ==
    { [change |-> -2500, negative_zero |-> FALSE],
      [change |-> 0, negative_zero |-> FALSE],
      [change |-> 0, negative_zero |-> TRUE],
      [change |-> 1600, negative_zero |-> FALSE] }

\* the index dict: the indices of present have two weekly changes, the
\* others an empty list
index_dict(present, first_latest, second_latest) ==
    [n \in {indices[i][1] : i \in 1..Len(indices)} |->
        IF n \notin present THEN <<>>
        ELSE IF n = indices[1][1] THEN <<0, first_latest>>
        ELSE <<0, second_latest>>]

CalcIdle ==
    /\ calc_step = 0
    /\ in_symbols = <<"GLD">>
    /\ in_feed = [s \in {"GLD"} |-> DownloadError]
    /\ in_top_n = 5
    /\ mt_result = Zero5
    /\ tg_result = NoResult
    /\ bp_result = NoResult

InsInit ==
    /\ CalcIdle
    /\ RunIdle
    /\ ins_step = 0
    /\ insights = NoResult
    /\ insights_no_small = NoResult
    /\ \E hi \in InsTops, sm \in InsSmallTops, trend \in InsTrends :
           /\ \E n \in 0..MaxInsCommodities :
                  arg_commodities = gainers_board(commodity_names, n, hi, 400, trend)
           /\ \E n \in 0..MaxInsLarge :
                  arg_large_caps = gainers_board(nifty_50, n, hi, 50, trend)
           /\ \E n \in 0..MaxInsMid :
                  arg_mid_caps = gainers_board(nifty_midcap, n, hi, 50, trend)
           /\ \E n \in 0..MaxInsSmall :
                  arg_small_caps = gainers_board(nifty_smallcap, n, sm, 50, trend)
           /\ \E n \in 0..MaxInsBottom :
                  arg_bottom_performers = losers_board(nifty_midcap, n, InsLow(hi), 50, trend)
           /\ \E k \in 0..Len(indices) :
                  arg_indices = index_dict({indices[i][1] : i \in 1..k},
                                           hi - 100, InsLow(hi) + 300)

\* insights = generate_market_insights(commodities, large_caps, mid_caps,
\*                                     small_caps, bottom_performers, indices)
CallInsights ==
    /\ ins_step = 0
    /\ insights' = generate_market_insights(arg_commodities, arg_large_caps,
                       arg_mid_caps, arg_small_caps, arg_bottom_performers,
                       index_names, arg_indices)
    /\ ins_step' = 1
    /\ UNCHANGED <<arg_commodities, arg_large_caps, arg_mid_caps, arg_small_caps,
                   arg_bottom_performers, arg_indices, insights_no_small>>
    /\ UNCHANGED <<calc_vars, env_vars, run_vars>>

\* the same call with no small-cap leaderboard
CallInsightsNoSmall ==
    /\ ins_step = 1
    /\ insights_no_small' = generate_market_insights(arg_commodities, arg_large_caps,
                                arg_mid_caps, <<>>, arg_bottom_performers,
                                index_names, arg_indices)
    /\ ins_step' = 2
    /\ UNCHANGED <<arg_commodities, arg_large_caps, arg_mid_caps, arg_small_caps,
                   arg_bottom_performers, arg_indices, insights>>
    /\ UNCHANGED <<calc_vars, env_vars, run_vars>>

InsNext == CallInsights \/ CallInsightsNoSmall

SpecInsights == InsInit /\ [][InsNext]_vars

----------------------------------------------------------------------------
(* The run *)

Init ==
    /\ InsIdle
    /\ calc_step = 0
    /\ in_symbols = <<"GLD">>
    /\ in_feed = [s \in {"GLD"} |-> DownloadError]
    /\ in_top_n = 5
    /\ mt_result = Zero5
    /\ tg_result = NoResult
    /\ bp_result = NoResult
    /\ outage \in BOOLEAN
    /\ glitch = FALSE
    /\ provider_changes = 0
    /\ pc = "commodities"
    /\ idx = 1
    /\ perf = <<>>
    /\ commodity_perf = <<>>
    /\ commodity_charts = {}
    /\ top_5_commodities = <<>>
    /\ all_stock_performance = <<>>
    /\ bottom_5_stocks = <<>>
    /\ index_changes = [n \in {indices[i][1] : i \in 1..Len(indices)} |-> <<>>]
    /\ index_charts_data = {}
    /\ market_insights = <<>>
    /\ html_content = NoDocument

Next ==
    \/ FetchCommodity
    \/ FetchCommodityChart
    \/ RankCommodities
    \/ EnterTopGainers
    \/ FetchStock
    \/ RankStocks
    \/ EnterBottomPerformers
    \/ FetchBottom
    \/ RankBottom
    \/ FetchIndex
    \/ GenerateInsights
    \/ BuildReport
    \/ SendEmail
    \/ ProviderChanges

Spec == Init /\ [][Next]_vars

----------------------------------------------------------------------------
(* Vocabulary of the claims *)

\* x (in hundredths) is num / den (den > 0) rounded to 2 decimals: a
\* hundredth nearest to the exact quotient, either neighbour when the
\* quotient lies half-way between two
NearestHundredth(x, num, den) ==
    2 * (IF x * den >= num THEN x * den - num ELSE num - x * den) <= den

\* the lookbacks the code computes, in bars
Lookbacks == {1, 5, 63, 126}

\* the change a result tuple or record reports for lookback k
ChangeOf(rec, k) ==
    CASE k = 1   -> rec.day_1
      [] k = 5   -> rec.week_1
      [] k = 63  -> rec.month_3
      [] k = 126 -> rec.month_6

\* x is (close[n-1] - close[n-1-k]) / close[n-1-k] * 100 rounded to 2
\* decimals, in hundredths, for a series d of positive closes (1-based: the
\* latest bar is d[Len(d)])
IsExpectedChange(x, d, k) ==
    NearestHundredth(x, (d[Len(d)] - d[Len(d) - k]) * 10000, d[Len(d) - k])

\* the code has one way to say "no value": the number 0
IsUnavailable(x) == x = 0

\* the series the calculators were handed
the_resp == in_feed[in_symbols[1]]
the_series == the_resp.closes

\* every price and every (rounded) change a series with a non-zero reference can yield
GenuinePrices == 0..MaxPrice
GenuineChanges ==
    { hundredths(rounded_change(a, b)) : a \in 0..MaxPrice, b \in 1..MaxPrice }

\* identifiers in ascending lexical (code point) order, those handed to the
\* ranking functions on their own among them
LexSorted ==
    << "BANKBARODA.NS", "BEL.NS", "BHARTIARTL.NS", "CANBK.NS", "CROMPTON.NS",
       "Copper", "Crude Oil", "DLF.NS", "GAIL.NS", "GODREJCP.NS", "Gold",
       "HDFCBANK.NS", "HINDUNILVR.NS", "HONAUT.NS", "ICICIBANK.NS", "INFY.NS",
       "IRCTC.NS", "JUBLFOOD.NS", "LUPIN.NS", "Natural Gas", "POLYCAB.NS",
       "RELIANCE.NS", "SAIL.NS", "SBIN.NS", "SIEMENS.NS", "Silver", "TCS.NS",
       "VEDL.NS" >>

LexLess(a, b) == PosIn(LexSorted, a) < PosIn(LexSorted, b)

\* a gainers / losers leaderboard in the order the specification prescribes
RankedGainers(L) ==
    \A i, j \in 1..Len(L) :
        i < j => \/ L[i].day_1 > L[j].day_1
                 \/ L[i].day_1 = L[j].day_1 /\ LexLess(L[i].sym, L[j].sym)

RankedLosers(L) ==
    \A i, j \in 1..Len(L) :
        i < j => \/ L[i].day_1 < L[j].day_1
                 \/ L[i].day_1 = L[j].day_1 /\ LexLess(L[i].sym, L[j].sym)

\* the series has no 1-day change: the fetch failed, or fewer than 2 bars
DayUnavailable(resp) == ~resp.ok \/ Len(resp.closes) < 2

Min(a, b) == IF a < b THEN a ELSE b

\* L is the first min(n, Len(full)) records of full
IsPrefix(L, full, n) ==
    /\ Len(L) = Min(n, Len(full))
    /\ \A i \in 1..Len(L) : L[i] = full[i]

Occurs(rec, lst) == \E i \in 1..Len(lst) : lst[i] = rec

SortedDescending(lst) ==
    \A i, j \in 1..Len(lst) : i < j => lst[i].day_1 >= lst[j].day_1

SortedAscending(lst) ==
    \A i, j \in 1..Len(lst) : i < j => lst[i].day_1 <= lst[j].day_1

\* where the run stands: the commodities, the stock pool, the bottom list
\* have just been ranked and cut (none of them is assigned again later)
CommoditiesRanked == pc = "stocks"
StocksRanked == pc = "bottom"
BottomRanked == pc = "indices" /\ idx = 1
PastBottom == pc \in {"indices", "insights", "report", "send", "done", "failed", "crashed"}

\* tier is the pool restricted to the symbols of syms, in the pool's order
\* (the records of a pool are distinct: one per symbol)
TierOfPool(tier, syms, pool) ==
    /\ \A i \in 1..Len(pool) : InList(pool[i].sym, syms) => Occurs(pool[i], tier)
    /\ \A j \in 1..Len(tier) : InList(tier[j].sym, syms) /\ Occurs(tier[j], pool)
    /\ \A j \in 1..(Len(tier) - 1) : PosIn(pool, tier[j]) < PosIn(pool, tier[j + 1])

----------------------------------------------------------------------------
(* Claims *)

\* C1: for a series of n >= 2 bars and a lookback k < n whose reference close
\* is not zero, the change reported for k by get_multi_timeframe_change and by
\* the records of get_daily_top_gainers / get_daily_bottom_performers is
\* (close[n-1] - close[n-1-k]) / close[n-1-k] * 100 rounded to 2 decimals.
C1_ChangeFromKBarsBack ==
    (the_resp.ok /\ Len(the_series) >= 2) =>
        \A k \in Lookbacks :
            (k < Len(the_series) /\ the_series[Len(the_series) - k] # 0) =>
                /\ calc_step >= 1 =>
                       IsExpectedChange(ChangeOf(mt_result, k), the_series, k)
                /\ calc_step >= 2 =>
                       \A i \in 1..Len(tg_result) :
                           IsExpectedChange(ChangeOf(tg_result[i], k), the_series, k)
                /\ calc_step >= 3 =>
                       \A i \in 1..Len(bp_result) :
                           IsExpectedChange(ChangeOf(bp_result[i], k), the_series, k)

\* C2: for a non-empty series and a lookback k >= len(S), the change for k is
\* Unavailable and the current price returned is the latest close, a series
\* of one bar included.
C2_ShortSeriesKeepsPrice ==
    (calc_step >= 1 /\ the_resp.ok /\ Len(the_series) >= 1) =>
        \A k \in Lookbacks :
            k >= Len(the_series) =>
                /\ IsUnavailable(ChangeOf(mt_result, k))
                /\ mt_result.price = the_series[Len(the_series)]

\* C3: for an empty series the result is Unavailable for the price and for
\* every change, a result no genuine price or change of 0 can be taken for.
C3_EmptyIsDistinctFromZero ==
    (calc_step >= 1 /\ the_resp.ok /\ Len(the_series) = 0) =>
        /\ mt_result.price \notin GenuinePrices
        /\ \A k \in Lookbacks : ChangeOf(mt_result, k) \notin GenuineChanges

\* C4: when the reference close of one lookback is exactly zero, that change
\* is Unavailable, and the price and the changes of the other lookbacks are
\* still those computed from the series.
C4_ZeroReferenceIsolated ==
    (calc_step >= 1 /\ the_resp.ok /\ Len(the_series) >= 2) =>
        \A k \in Lookbacks :
            (k < Len(the_series) /\ the_series[Len(the_series) - k] = 0) =>
                /\ IsUnavailable(ChangeOf(mt_result, k))
                /\ mt_result.price = the_series[Len(the_series)]
                /\ \A j \in Lookbacks :
                       (j < Len(the_series) /\ the_series[Len(the_series) - j] # 0) =>
                           IsExpectedChange(ChangeOf(mt_result, j), the_series, j)

\* C5: a record whose 1-day change is Unavailable (series empty or too short,
\* or fetch failed) appears in no leaderboard of the run and is not part of
\* the evaluated pool behind the breadth statistic: a fetch that yields no
\* 1-day change adds no record to the list the leaderboards are cut from.
C5_UnavailableNeverRanked ==
    [][ /\ (FetchCommodity /\ DayUnavailable(download_commodity(idx)))
               => commodity_perf' = commodity_perf
        /\ (FetchStock /\ DayUnavailable(download_stock(all_stocks[idx])))
               => perf' = perf
        /\ (FetchBottom /\ DayUnavailable(download_stock(all_stocks[idx])))
               => perf' = perf
      ]_vars

\* C6: a leaderboard is ordered by 1-day change, descending for gainers and
\* ascending for losers, and records with equal change are in ascending
\* lexical order of their identifiers, whatever the order of the symbols.
C6_TiesByIdentifier ==
    /\ calc_step >= 2 => RankedGainers(tg_result)
    /\ calc_step >= 3 => RankedLosers(bp_result)

\* a record that has a 1-day change: the code's result for a fetch without
\* one (failed, empty or too short, or an exception) is the all-zero tuple,
\* which no series with a 1-day change yields
HasDayChange(rec) == rec # record_of(rec.sym, Zero5)

\* the qualifying records of a list, in the list's order
Qualifying(lst) == SelectSeq(lst, HasDayChange)

\* C7: a leaderboard built with limit N holds exactly the first
\* min(N, number of qualifying records) records of the full sorted ranking
\* of the qualifying records, those that have a 1-day change.
C7_LimitIsPrefix ==
    /\ CommoditiesRanked =>
          /\ SortedDescending(Qualifying(commodity_perf))
          /\ IsPrefix(top_5_commodities, Qualifying(commodity_perf), 5)
    /\ StocksRanked =>
          /\ SortedDescending(Qualifying(perf))
          /\ IsPrefix(all_stock_performance, Qualifying(perf), Len(all_stocks))
          /\ IsPrefix(top_10_overall, all_stock_performance, 10)
          /\ IsPrefix(top_10_large, large_cap_performance, 10)
          /\ IsPrefix(top_5_mid, mid_cap_performance, 5)
          /\ IsPrefix(top_5_small, small_cap_performance, 5)
    /\ BottomRanked =>
          /\ SortedAscending(Qualifying(perf))
          /\ IsPrefix(bottom_5_stocks, Qualifying(perf), 5)

\* C8: each cap-tier ranking is the overall ranking filtered by tier
\* membership, order preserved; every instrument of the overall top 10 is in
\* its tier's ranking, and in the tier's top-N leaderboard when N >= 10
\* (the large caps).
C8_TiersConsistentWithOverall ==
    StocksRanked =>
        /\ TierOfPool(large_cap_performance, large_caps, all_stock_performance)
        /\ TierOfPool(mid_cap_performance, mid_caps, all_stock_performance)
        /\ TierOfPool(small_cap_performance, small_caps, all_stock_performance)
        /\ \A i \in 1..Len(top_10_overall) :
              LET r == top_10_overall[i]
              IN  /\ InList(r.sym, large_caps) =>
                        Occurs(r, large_cap_performance) /\ Occurs(r, top_10_large)
                  /\ InList(r.sym, mid_caps) => Occurs(r, mid_cap_performance)
                  /\ InList(r.sym, small_caps) => Occurs(r, small_cap_performance)

\* C8 witness: more than 10 stocks were evaluated, a large cap is in the
\* overall top 10 and another large cap is below it
C8_Witness ==
    /\ StocksRanked
    /\ Len(all_stock_performance) > 10
    /\ \E i \in 1..10 : InList(all_stock_performance[i].sym, large_caps)
    /\ \E i \in 11..Len(all_stock_performance) :
           InList(all_stock_performance[i].sym, large_caps)

\* C9: every record of the bottom-5 leaderboard is a record of the all-stock
\* pool behind the top rankings, and the bottom 5 are the five lowest 1-day
\* changes of that pool, whatever the provider returns on each call.
C9_BottomFromSamePool ==
    PastBottom =>
        /\ \A i \in 1..Len(bottom_5_stocks) :
              Occurs(bottom_5_stocks[i], all_stock_performance)
        /\ Len(bottom_5_stocks) = Min(5, Len(all_stock_performance))
        /\ \A j \in 1..Len(all_stock_performance) :
              ~Occurs(all_stock_performance[j], bottom_5_stocks) =>
                  \A i \in 1..Len(bottom_5_stocks) :
                      bottom_5_stocks[i].day_1 <= all_stock_performance[j].day_1

\* the whole number b is the percentage part / whole rounded to a nearest
\* integer
NearestPercent(b, part, whole) == 2 * Abs(100 * part - b * whole) <= whole

\* C10: the run's breadth is count(1-day change > 0) / count(evaluated), and
\* with no evaluated record it is Unavailable: no divide-by-zero fault ends
\* the run.
C10_BreadthNeverFaults ==
    /\ pc # "crashed"
    /\ html_content.built =>
          /\ Len(all_stock_performance) > 0
          /\ NearestPercent(html_content.breadth,
                            count_gainers(all_stock_performance),
                            Len(all_stock_performance))

----------------------------------------------------------------------------
(* Claims about generate_market_insights *)

\* the insights of lst emitted by the rules of a set of titles
OfRules(lst, rules) == SelectSeq(lst, LAMBDA x : x.rule \in rules)

CountRule(lst, rule) == Len(OfRules(lst, {rule}))

CommodityRules == {"Commodity Momentum", "Commodity Weakness"}
LargeCapRules == {"Large Cap Leaders", "Broad Market Strength"}
MidCapRules == {"Mid Cap Hot Pick", "Mid Cap Opportunity"}
SmallCapRules == {"Small Cap Breakout", "Small Cap Outperformance"}
BottomRules == {"Structural Decline", "Sharp Drop Alert", "Market Weakness Detected"}
IndexRules == {"Bullish", "Bearish"}
BreadthRules == {"Strong Market Breadth", "Weak Market Breadth"}

\* the list is not empty, holds the disclaimer once, and ends with it
DisclaimerOnceAndLast(lst) ==
    /\ Len(lst) >= 1
    /\ lst[Len(lst)] = Disclaimer
    /\ Cardinality({i \in 1..Len(lst) : lst[i] = Disclaimer}) = 1

\* C11: for every combination of arguments (leaderboards empty or populated,
\* any index change lists) the list generate_market_insights returns is not
\* empty, contains the disclaimer exactly once, and the disclaimer is its
\* last element.
C11_DisclaimerOnceAndLast ==
    /\ ins_step >= 1 => DisclaimerOnceAndLast(insights)
    /\ ins_step >= 2 => DisclaimerOnceAndLast(insights_no_small)

\* C11 witness: a call in which the market sentiment rule and at least three
\* other rules fired before the disclaimer
C11_Witness ==
    /\ ins_step >= 1
    /\ Len(insights) >= 5
    /\ OfRules(insights, BreadthRules) # <<>>

\* every rule but the small-cap rules
OtherRules == CommodityRules \cup LargeCapRules \cup MidCapRules \cup BottomRules
              \cup IndexRules \cup BreadthRules \cup {"Disclaimer"}

\* C12: with no small-cap leaderboard the small-cap rules emit nothing, and
\* the insights of every other rule (commodity, large-cap, mid-cap, bottom,
\* index, breadth, disclaimer) are those emitted for the same other arguments
\* with a small-cap leaderboard present.
C12_SmallCapsTouchOnlyTheirRules ==
    ins_step >= 2 =>
        /\ OfRules(insights_no_small, SmallCapRules) = <<>>
        /\ OfRules(insights, OtherRules) = OfRules(insights_no_small, OtherRules)

\* the index insights that name idx_name
OfIndex(lst, idx_name) ==
    SelectSeq(lst, LAMBDA x : x.rule \in IndexRules /\ x.subject = idx_name)

\* C13: generate_market_insights returns for every combination of empty or
\* short leaderboards, and a rule whose input is missing (no commodities,
\* fewer than 3 large caps, no mid caps, no small caps, fewer than 2 bottom
\* performers, an empty index change list, no large or mid caps for the
\* market sentiment) emits nothing; with every input empty the result is the
\* disclaimer alone.
C13_MissingInputsAreSkipped ==
    ins_step >= 1 =>
        /\ DisclaimerOnceAndLast(insights)
        /\ arg_commodities = <<>> => OfRules(insights, CommodityRules) = <<>>
        /\ Len(arg_large_caps) < 3 => OfRules(insights, LargeCapRules) = <<>>
        /\ arg_mid_caps = <<>> => OfRules(insights, MidCapRules) = <<>>
        /\ arg_small_caps = <<>> => OfRules(insights, SmallCapRules) = <<>>
        /\ arg_large_caps = <<>> => CountRule(insights, "Small Cap Outperformance") = 0
        /\ Len(arg_bottom_performers) < 2 => OfRules(insights, BottomRules) = <<>>
        /\ \A n \in DOMAIN arg_indices :
               arg_indices[n] = <<>> => OfIndex(insights, n) = <<>>
        /\ (arg_large_caps = <<>> \/ arg_mid_caps = <<>>) =>
               OfRules(insights, BreadthRules) = <<>>
        /\ ( /\ arg_commodities = <<>> /\ arg_large_caps = <<>> /\ arg_mid_caps = <<>>
             /\ arg_small_caps = <<>> /\ arg_bottom_performers = <<>>
             /\ \A n \in DOMAIN arg_indices : arg_indices[n] = <<>> )
               => insights = << Disclaimer >>

\* C13 witness: two large caps that average above 2, a single bottom
\* performer below -5, one index without changes, and other rules that fired
C13_Witness ==
    /\ ins_step >= 1
    /\ Len(arg_large_caps) = 2 /\ arg_large_caps[1].day_1 > 400
    /\ Len(arg_bottom_performers) = 1 /\ arg_bottom_performers[1].day_1 < -500
    /\ \E n \in DOMAIN arg_indices : arg_indices[n] = <<>>
    /\ arg_small_caps # <<>>
    /\ Len(insights) >= 3

\* "+d.dd": the rendering of a positive change x (in hundredths) with an
\* explicit sign and two decimals
PlusTwoDecimals(x) ==
    [sign |-> "+", int |-> x \div 100, frac |-> x % 100, decimals |-> 2]

\* C14: the momentum rule fires exactly when the top gainer's 1-day change is
\* strictly above 3.0: it then emits one momentum insight that names the
\* instrument and shows the change with sign and two decimals (4.2 gives
\* "+4.20%"); at 3.0 or less it emits none.
C14_MomentumAboveThree ==
    ins_step >= 1 =>
        IF arg_commodities # <<>> /\ arg_commodities[1].day_1 > 300
        THEN /\ CountRule(insights, "Commodity Momentum") = 1
             /\ LET m == OfRules(insights, {"Commodity Momentum"})[1]
                IN  /\ m.subject = arg_commodities[1].sym
                    /\ m.figures[1] = PlusTwoDecimals(arg_commodities[1].day_1)
        ELSE CountRule(insights, "Commodity Momentum") = 0

\* C14 witness: the top gainer is up 4.20 and the insight shows "+4.20"
C14_Witness ==
    /\ ins_step >= 1
    /\ arg_commodities # <<>>
    /\ arg_commodities[1].day_1 = 420
    /\ \E i \in 1..Len(insights) :
           /\ insights[i].rule = "Commodity Momentum"
           /\ insights[i].figures[1] = [sign |-> "+", int |-> 4, frac |-> 20, decimals |-> 2]

\* the rules whose figures are percentage changes
ChangeRules == CommodityRules \cup {"Large Cap Leaders"} \cup MidCapRules
               \cup SmallCapRules \cup {"Structural Decline", "Sharp Drop Alert"}
               \cup IndexRules

\* a rendering that follows the sign policy: two decimals, "0.00" without a
\* sign, every other value with "+" or "-"
FollowsSignPolicy(f) ==
    /\ f.decimals = 2
    /\ IF f.int = 0 /\ f.frac = 0 THEN f.sign = "" ELSE f.sign \in {"+", "-"}

\* C15: every percentage change interpolated into an insight is rendered with
\* two decimals, a "+" when positive, a "-" when negative, and as "0.00%"
\* without a sign when zero.
C15_SignAndTwoDecimals ==
    ins_step >= 1 =>
        \A i \in 1..Len(insights) :
            insights[i].rule \in ChangeRules =>
                \A j \in 1..Len(insights[i].figures) :
                    FollowsSignPolicy(insights[i].figures[j])

\* the symbols whose iteration appends a record
Surviving(symbols, feed) ==
    SelectSeq(symbols, LAMBDA sym : perf_append(sym, feed[sym]) # <<>>)

\* C16: in the ranking loops a failed fetch, an empty or too short series or
\* an exception for one symbol does not end the batch: the leaderboards are
\* those of the universe without the failing symbols, and every other symbol
\* is ranked up to the limit.
C16_FailuresDoNotAbortBatch ==
    calc_step >= 2 =>
        LET surviving == Surviving(in_symbols, in_feed)
        IN  /\ tg_result = get_daily_top_gainers(surviving, in_feed, in_top_n)
            /\ Len(tg_result) = Min(in_top_n, Len(surviving))
            /\ calc_step >= 3 =>
                  /\ bp_result = get_daily_bottom_performers(surviving, in_feed,
                                                             in_top_n)
                  /\ Len(bp_result) = Min(in_top_n, Len(surviving))

\* C16 witness: the first symbol's download raises, a later one has one bar,
\* and the two symbols after them are both ranked
C16_Witness ==
    /\ calc_step = 3
    /\ in_feed[in_symbols[1]] = DownloadError
    /\ in_feed[in_symbols[2]] = Frame(<<100>>)
    /\ Len(tg_result) = 2
    /\ Len(bp_result) = 2
    /\ \A i \in 3..4 : \E j \in 1..2 : tg_result[j].sym = in_symbols[i]

----------------------------------------------------------------------------
(* Claims about the run as a whole *)

\* the run has ended: no section is left to execute
RunEnded == pc \in {"done", "failed", "crashed"}

\* the text of a section of the document: its table or chart when there is
\* data for it, its placeholder when there is none
SectionShows(section, has_data, placeholder) ==
    section = IF has_data THEN "table" ELSE placeholder

\* C17: whatever the data provider returns (any of the commodity, stock and
\* index fetches failing or empty, all of them included), the run goes
\* through commodities, stocks, indices, insights and the report and reaches
\* the delivery step with a complete document, in which the missing sections
\* are "No ... data available" placeholders; a run ends with an error only
\* when the delivery itself fails.
C17_DegradedContentNotFailedRun ==
    /\ RunEnded => pc \in {"done", "failed"}
    /\ pc \in {"send", "done", "failed"} =>
          /\ html_content.built
          /\ SectionShows(html_content.overall, top_10_overall # <<>>,
                          "No overall market data available")
          /\ SectionShows(html_content.large_cap, top_10_large # <<>>,
                          "No large cap data available")
          /\ SectionShows(html_content.mid_cap, top_5_mid # <<>>,
                          "No mid cap data available")
          /\ SectionShows(html_content.small_cap, top_5_small # <<>>,
                          "No small cap data available")
          /\ SectionShows(html_content.bottom, bottom_5_stocks # <<>>,
                          "No bottom performer data available")
          /\ html_content.insights = market_insights

\* C18: the percentage of positive stocks that a Strong / Weak Market Breadth
\* insight states is the Market Breadth percentage of the report header:
\* both are computed over the evaluated stock pool of the run.
C18_InsightBreadthIsHeaderBreadth ==
    html_content.built =>
        /\ \A i \in 1..Len(market_insights) :
               market_insights[i].rule \in BreadthRules =>
                   market_insights[i].figures[1] = html_content.breadth
        /\ OfRules(market_insights, BreadthRules) # <<>> =>
               total_stocks(top_10_large, top_5_mid, top_5_small)
                   = Len(all_stock_performance)

\* the mean of the first up-to-three 1-day changes of lst is sum / n
MeanCount(lst) == Len(Take(lst, 3))

\* the sum of the first up-to-three 1-day changes of lst, in hundredths
RECURSIVE SumOfChanges(_)
SumOfChanges(lst) ==
    IF lst = <<>> THEN 0 ELSE Head(lst).day_1 + SumOfChanges(Tail(lst))

SumTop3(lst) == SumOfChanges(Take(lst, 3))

\* the figure fig is the mean sum / n of n changes (sum in hundredths)
\* printed with one decimal: a tenth nearest to the mean, either neighbour
\* when the mean lies half-way between two
IsMeanOneDecimal(fig, sum, n) ==
    LET magnitude == fig.int * 10 + fig.frac
        tenths == IF fig.sign = "-" THEN 0 - magnitude ELSE magnitude
    IN  /\ fig.decimals = 1
        /\ 2 * Abs(tenths * 10 * n - sum) <= 10 * n

\* C19: in the Small Cap Outperformance rule the two values compared against
\* the margin of 2 and printed as averages are the means of the 1-day
\* changes of the records summed (the first up-to-three of each
\* leaderboard), also when a leaderboard holds fewer than three records.
C19_AveragesAreMeans ==
    (ins_step >= 1 /\ arg_small_caps # <<>> /\ arg_large_caps # <<>>) =>
        LET ns == MeanCount(arg_small_caps)
            nl == MeanCount(arg_large_caps)
            small_sum == SumTop3(arg_small_caps)
            large_sum == SumTop3(arg_large_caps)
            \* small_sum / ns - (large_sum / nl + 2), in hundredths times ns * nl
            margin == small_sum * nl - (large_sum * ns + 200 * ns * nl)
        IN  /\ margin > 0 => CountRule(insights, "Small Cap Outperformance") = 1
            /\ margin < 0 => CountRule(insights, "Small Cap Outperformance") = 0
            /\ \A i \in 1..Len(insights) :
                   insights[i].rule = "Small Cap Outperformance" =>
                       /\ Len(insights[i].figures) = 2
                       /\ IsMeanOneDecimal(insights[i].figures[1], small_sum, ns)
                       /\ IsMeanOneDecimal(insights[i].figures[2], large_sum, nl)

====
